---- MODULE Spec2Model ----
(***************************************************************************)
(* Artificial Bee Colony portfolio optimizer (BKD/PortfolioOptimization/   *)
(* ABC.py): the ABC population, the LearnABC loop and the ABC_Model facade.*)
(*                                                                         *)
(* Numbers.  A float is modelled as a pair <<n, d>> with d >= 0:           *)
(*   d > 0   the rational n/d in lowest terms (exact arithmetic),          *)
(*   <<1,0>> +inf,  <<-1,0>> -inf,  <<0,0>> NaN                            *)
(* with the IEEE-754 rules numpy follows for the three special values      *)
(* (x/0, 0/0, inf-inf, comparisons with NaN are false).  Rounding is not   *)
(* modelled.                                                               *)
(***************************************************************************)
EXTENDS Integers, Sequences, FiniteSets, TLC

VARIABLES
    model,            \* ABC_Model: lb, ub, evaluationNumber, limit, P, MR, net
    args,             \* arguments of fit: mean_return, cov, method_name, rfr
    pc,               \* position inside fit / LearnABC.learn
    method,           \* ABC.method, the objective selected in ABC.__init__
    Foods,            \* ABC.Foods, P rows of D numbers
    solution,         \* ABC.solution, the candidate buffer
    f,                \* ABC.f, objective of each source
    fitness,          \* ABC.fitness
    trial,            \* ABC.trial
    prob,             \* ABC.prob
    tmpID,            \* ABC.tmpID
    globalMin,        \* ABC.globalMin
    globalParams,     \* ABC.globalParams
    evaluationNumber, \* ABC.evaluationNumber
    scoutBeeCounts,   \* ABC.scoutBeeCounts
    objValSol,        \* learn's local objValSol
    f_values,         \* LearnABC.f_values
    i,                \* loop index i of sendEmployedBees / sendOnLookerBees
    t,                \* output slot t of sendOnLookerBees
    hist,             \* bookkeeping of the run (not program state), see Hist0
    probe             \* input and output of a pure function under test

vars == <<model, args, pc, method, Foods, solution, f, fitness, trial, prob,
          tmpID, globalMin, globalParams, evaluationNumber, scoutBeeCounts,
          objValSol, f_values, i, t, hist, probe>>

-----------------------------------------------------------------------------
(* Extended rational arithmetic.  The operations are functions, so that   *)
(* an operand is a value, computed once, like an argument of a numpy call. *)

GCD[a \in Int, b \in Int] == IF b = 0 THEN a ELSE GCD[b, a % b]

AbsInt[n \in Int] == IF n < 0 THEN -n ELSE n

Sgn[n \in Int] == IF n > 0 THEN 1 ELSE IF n < 0 THEN -1 ELSE 0

\* The number n/d: lowest terms, positive denominator; d = 0 gives inf/NaN.
Q[n \in Int, d \in Int] ==
    IF d = 0 THEN <<Sgn[n], 0>>
    ELSE LET g == GCD[AbsInt[n], AbsInt[d]]
             s == IF d < 0 THEN -1 ELSE 1
         IN  <<s * (n \div g), s * (d \div g)>>

\* The pairs that stand for floats
Num == Int \X Int

Zero == <<0, 1>>
One == <<1, 1>>
NaN == <<0, 0>>
PosInf == <<1, 0>>
NegInf == <<-1, 0>>

IsNaN(a) == a = NaN
IsFinite(a) == a[2] > 0

Neg[a \in Num] == <<-a[1], a[2]>>

Abs[a \in Num] == <<AbsInt[a[1]], a[2]>>

\* Sums and products reduce by the common factors first, so that the
\* intermediate integers stay small.
Add[a \in Num, b \in Num] ==
    IF a[2] = 0 /\ b[2] = 0 THEN (IF a[1] = b[1] THEN a ELSE NaN)
    ELSE IF a[2] = 0 THEN a
    ELSE IF b[2] = 0 THEN b
    ELSE LET g == GCD[a[2], b[2]]
         IN  Q[a[1] * (b[2] \div g) + b[1] * (a[2] \div g), (a[2] \div g) * b[2]]

Sub[a \in Num, b \in Num] == Add[a, Neg[b]]

\* inf * 0 = NaN, inf * x = +-inf
Mul[a \in Num, b \in Num] ==
    IF a[2] = 0 \/ b[2] = 0 THEN Q[a[1] * b[1], 0]
    ELSE LET g1 == GCD[AbsInt[a[1]], b[2]]
             g2 == GCD[AbsInt[b[1]], a[2]]
         IN  Q[(a[1] \div g1) * (b[1] \div g2), (a[2] \div g2) * (b[2] \div g1)]

\* 1/b: 1/0 = +inf (the zero divisors of the program are +0.0), 1/inf = 0
Recip[b \in Num] ==
    IF IsNaN(b) THEN NaN
    ELSE IF b[2] = 0 THEN Zero
    ELSE IF b[1] < 0 THEN <<-b[2], -b[1]>>
    ELSE <<b[2], b[1]>>

\* IEEE division: x/0 = +-inf, 0/0 = NaN, x/inf = 0, inf/inf = NaN.
Div[a \in Num, b \in Num] == Mul[a, Recip[b]]

\* a < b; false when either is NaN.
Less[a \in Num, b \in Num] ==
    /\ ~IsNaN(a)
    /\ ~IsNaN(b)
    /\ IF a[2] = 0 /\ b[2] = 0 THEN a[1] < b[1]
       ELSE IF a[2] = 0 THEN a[1] < 0
       ELSE IF b[2] = 0 THEN b[1] > 0
       ELSE LET g == GCD[a[2], b[2]]
            IN  a[1] * (b[2] \div g) < b[1] * (a[2] \div g)

Greater[a \in Num, b \in Num] == Less[b, a]

\* a >= b; false when either is NaN.
GEq[a \in Num, b \in Num] == ~IsNaN(a) /\ ~IsNaN(b) /\ ~Less[a, b]

LEq[a \in Num, b \in Num] == GEq[b, a]

\* np.minimum / np.maximum: NaN propagates.
Minimum[a \in Num, b \in Num] ==
    IF IsNaN(a) \/ IsNaN(b) THEN NaN ELSE IF Less[b, a] THEN b ELSE a

Maximum[a \in Num, b \in Num] ==
    IF IsNaN(a) \/ IsNaN(b) THEN NaN ELSE IF Less[a, b] THEN b ELSE a

\* np.clip(x, lo, hi) = minimum(maximum(x, lo), hi)
Clip[x \in Num, lo \in Num, hi \in Num] == Minimum[Maximum[x, lo], hi]

\* Exact integer square root; the market data of the model keeps every
\* radicand a perfect square.
ISqrt[n \in Nat] == CHOOSE k \in 0..n : k * k = n

\* np.sqrt: NaN for a negative or NaN argument, inf for inf.
Sqrt[a \in Num] ==
    IF IsNaN(a) \/ a[1] < 0 THEN NaN
    ELSE IF a[2] = 0 THEN PosInf
    ELSE <<ISqrt[a[1]], ISqrt[a[2]]>>

\* row[1] + ... + row[k], left to right from 0.0
SumTo[row \in Seq(Num), k \in Nat] ==
    IF k = 0 THEN Zero ELSE Add[SumTo[row, k - 1], row[k]]

\* np.sum of a row
Sum[row \in Seq(Num)] == SumTo[row, Len(row)]

\* np.dot of two vectors
Dot[u \in Seq(Num), v \in Seq(Num)] == Sum[[d \in 1..Len(u) |-> Mul[u[d], v[d]]]]

\* row / np.sum(row)
Normalize[row \in Seq(Num)] ==
    LET s == Sum[row] IN [d \in 1..Len(row) |-> Div[row[d], s]]

-----------------------------------------------------------------------------
(* The three objectives and the fitness transform *)

\* ABC.__variance, one row
variance(w, cov) ==
    Sum[[d \in 1..Len(w) |-> Mul[Dot[w, [e \in 1..Len(w) |-> cov[e][d]]], w[d]]]]

\* ABC.__neg_sharpe_ratio, one row
neg_sharpe_ratio(w, mean_return, cov, rfr) ==
    LET ret == Dot[w, mean_return]
        risk == Sqrt[variance(w, cov)]
    IN  Div[Neg[Sub[ret, rfr]], risk]

\* ABC.__neg_sortino_ratio, one row
neg_sortino_ratio(w, mean_return, rfr) ==
    LET ret == Dot[w, mean_return]
        downside_returns == Minimum[Sub[ret, rfr], Zero]
        mean_sq == Div[Mul[downside_returns, downside_returns], One]
        downside_deviation0 == Sqrt[mean_sq]
        downside_deviation == IF downside_deviation0 = Zero THEN PosInf
                              ELSE downside_deviation0
    IN  Div[Neg[Sub[ret, rfr]], downside_deviation]

\* Mutant: 1 + f for 1 + |f| on the negative branch.
calculate_fitness_noabs(fObjV) ==
    IF GEq[fObjV, Zero] THEN Div[One, Add[fObjV, One]]
    ELSE Add[One, fObjV]

\* ABC.calculate_fitness, one value
calculate_fitness(fObjV) ==
    IF GEq[fObjV, Zero] THEN Div[One, Add[fObjV, One]]
    ELSE Add[One, Abs[fObjV]]

-----------------------------------------------------------------------------
(* Inputs of the model *)

\* ABC_Model.__init__ defaults lb=0, ub=1, MR=0.1
lb == 0
ub == 1
MR == <<1, 10>>

\* Largest evaluation budget a facade is configured with.
MaxBudget == 7
\* Number of fit calls made on one facade (of a one-asset market).
MaxFits == 2

None == <<>>

\* Values np.random.uniform(lb, ub) draws in the model, inside [lb, ub).
UniformDraws == {<<1, 4>>, <<3, 4>>}
\* Values r = -1 + 2*np.random.rand() draws in the model, inside [-1, 1):
\* both signs with one asset, one value with more (the masks then carry
\* the branching).
RDraws(dim) == IF dim = 1 THEN {<<-1, 2>>, <<1, 2>>} ELSE {<<1, 2>>}

\* np.random.uniform(lb, ub, D): the rows of D draws in the model (with
\* more than one asset, the rows whose first and last draw differ)
UniformRows(dim) ==
    {row \in [1..dim -> UniformDraws] : dim = 1 \/ row[1] # row[dim]}

\* Market data handed to fit: mean_return, cov, rfr.  Every cov is v v^T,
\* so the portfolio risk sqrt(w cov w) = |w.v| is rational.
Market2 == [mean_return |-> <<Q[2, 1], Q[1, 1]>>,
            cov |-> << <<Q[4, 1], Q[2, 1]>>, <<Q[2, 1], Q[1, 1]>> >>,
            rfr |-> Q[1, 1]]
Market1 == [mean_return |-> <<Q[1, 1]>>,
            cov |-> << <<Q[1, 1]>> >>,
            rfr |-> Q[1, 2]]
MarketFlat == [mean_return |-> <<Q[1, 1]>>,
               cov |-> << <<Q[0, 1]>> >>,
               rfr |-> Q[1, 1]]
\* Two perfectly anti-correlated assets, v = (3, -1): the portfolio
\* (1/4, 3/4) has risk 0 and return rfr, so its Sharpe ratio is 0/0.
MarketHedge == [mean_return |-> <<Q[2, 1], Q[1, 1]>>,
                cov |-> << <<Q[9, 1], Q[-3, 1]>>, <<Q[-3, 1], Q[1, 1]>> >>,
                rfr |-> Q[5, 4]]

MethodNames == {"dengeli", "garantici", "temkinli", "typo", "sharpe-ratio"}

\* fit(mean_return, cov, method_name, rfr)
FitCall(m, n, rfr) ==
    [mean_return |-> m.mean_return, cov |-> m.cov, method_name |-> n, rfr |-> rfr]

\* ABC_Model(evaluationNumber=b, limit=l, P=p) with the default lb, ub, MR
Facade(b, l, p) ==
    [lb |-> Q[lb, 1], ub |-> Q[ub, 1], evaluationNumber |-> b, limit |-> l,
     P |-> p, MR |-> MR, net |-> None]

\* The runs of the model, <<facade, fit call>>: one-asset markets with
\* every colony size, budget, limit and method name; the two-asset market
\* with a budget of one outer iteration; the hedged market with a budget
\* below the colony size.
Runs ==
    ({Facade(b, l, p) : b \in {1, 2, 3, MaxBudget}, l \in {1, 3}, p \in {0, 1, 2, 3}}
        \X ({FitCall(Market1, n, Market1.rfr) : n \in MethodNames}
            \cup {FitCall(Market1, n, None) : n \in {"garantici", "sharpe-ratio"}}
            \cup {FitCall(MarketFlat, "dengeli", MarketFlat.rfr)}))
    \cup ({Facade(2, 1, 2)}
        \X {FitCall(Market2, n, Market2.rfr) : n \in {"dengeli", "typo"}})
    \cup ({Facade(1, 1, 2)}
        \X {FitCall(MarketHedge, "dengeli", MarketHedge.rfr)})

-----------------------------------------------------------------------------
(* ABC *)

\* Mutant: the dictionary default is the variance objective.
methods_get_default_variance(method_name) ==
    CASE method_name = "dengeli" -> "neg_sharpe_ratio"
      [] method_name = "garantici" -> "variance"
      [] method_name = "temkinli" -> "neg_sortino_ratio"
      [] OTHER -> "variance"

\* self.methods.get(method_name, self.__neg_sharpe_ratio)
methods_get(method_name) ==
    CASE method_name = "dengeli" -> "neg_sharpe_ratio"
      [] method_name = "garantici" -> "variance"
      [] method_name = "temkinli" -> "neg_sortino_ratio"
      [] OTHER -> "neg_sharpe_ratio"

\* self.method(foods) for one row
Objective(m, w, a) ==
    CASE m = "variance" -> variance(w, a.cov)
      [] m = "neg_sortino_ratio" -> neg_sortino_ratio(w, a.mean_return, a.rfr)
      [] OTHER -> neg_sharpe_ratio(w, a.mean_return, a.cov, a.rfr)

\* ret - None raises TypeError in the two objectives that read rfr
ObjectiveRaises(m, a) == a.rfr = None /\ m # "variance"

\* ABC.calculateF: the objective of every row; the counter grows by len(f)
calculateF(m, foods, a) == [k \in 1..Len(foods) |-> Objective(m, foods[k], a)]

\* Mutant: the counter is one ahead of the rows evaluated.
EvalCount_plusOne(fv) == Len(fv) + 1

\* Mutant: the counter counts calls of the evaluator, not rows.
EvalCount_calls(fv) == 1

\* The amount calculateF adds to evaluationNumber
EvalCount(fv) == Len(fv)

\* np.argmin: the first NaN if there is one, else the first minimum
ArgMin(v) ==
    IF \E k \in 1..Len(v) : IsNaN(v[k])
    THEN CHOOSE k \in 1..Len(v) : IsNaN(v[k]) /\ \A j \in 1..(k - 1) : ~IsNaN(v[j])
    ELSE CHOOSE k \in 1..Len(v) :
            /\ \A j \in 1..Len(v) : ~Less[v[j], v[k]]
            /\ \A j \in 1..(k - 1) : Less[v[k], v[j]]

\* Mutant: the first entry instead of the minimum.
Min_first(v) == v[1]

\* np.min / np.max: NaN if any entry is NaN
Min(v) == v[ArgMin(v)]

Max(v) ==
    IF \E k \in 1..Len(v) : IsNaN(v[k]) THEN NaN
    ELSE CHOOSE x \in {v[k] : k \in 1..Len(v)} : \A j \in 1..Len(v) : ~Less[x, v[j]]

\* np.argmax of the (integer) trial counters: the first maximum
ArgMaxTrial(tr) ==
    CHOOSE k \in 1..Len(tr) :
        /\ \A j \in 1..Len(tr) : tr[j] <= tr[k]
        /\ \A j \in 1..(k - 1) : tr[j] < tr[k]

\* Mutant: the global best is overwritten on a tie too (<= for <).
memorizeBestSource_le(fv, foods, gMin, gParams) ==
    LET index == ArgMin(fv)
    IN  IF LEq[fv[index], gMin] THEN <<fv[index], foods[index]>>
        ELSE <<gMin, gParams>>

\* Mutant: the comparison with the stored global best is inverted.
memorizeBestSource_gt(fv, foods, gMin, gParams) ==
    LET index == ArgMin(fv)
    IN  IF Greater[fv[index], gMin] THEN <<fv[index], foods[index]>>
        ELSE <<gMin, gParams>>

\* Mutant: the stored global best is never replaced.
memorizeBestSource_keep(fv, foods, gMin, gParams) == <<gMin, gParams>>

\* ABC.memorizeBestSource: the new <<globalMin, globalParams>>
memorizeBestSource(fv, foods, gMin, gParams) ==
    LET index == ArgMin(fv)
    IN  IF Less[fv[index], gMin] THEN <<fv[index], foods[index]>>
        ELSE <<gMin, gParams>>

\* ABC.calculateProbabilities
calculateProbabilities(fit) ==
    LET maxfit == Max(fit)
    IN  [k \in 1..Len(fit) |-> Add[Mul[Div[Q[9, 10], maxfit], fit[k]], Q[1, 10]]]

\* Foods[i,d] + r*(Foods[i,d] - Foods[neighbour,d]), clipped to [lb, ub]
Perturb(foods, src, neighbour, d, r, lo, hi) ==
    Clip[Add[foods[src][d], Mul[r, Sub[foods[src][d], foods[neighbour][d]]]], lo, hi]

\* Mutant: the employed candidate is not divided by its sum.
EmployedCandidate_raw(foods, src, neighbour, param2change, r, lo, hi) ==
    [d \in 1..Len(foods[src]) |->
        IF d \in param2change
        THEN Perturb(foods, src, neighbour, d, r, lo, hi)
        ELSE foods[src][d]]

\* Mutant: an empty param2change is replaced by the first dimension.
EmployedCandidate_forced(foods, src, neighbour, param2change, r, lo, hi) ==
    LET p2c == IF param2change = {} THEN {1} ELSE param2change
        arr == [d \in 1..Len(foods[src]) |->
                   IF d \in p2c
                   THEN Perturb(foods, src, neighbour, d, r, lo, hi)
                   ELSE foods[src][d]]
    IN  Normalize[arr]

\* ABC.sendEmployedBees, body of the loop for source src: the candidate row
EmployedCandidate(foods, src, neighbour, param2change, r, lo, hi) ==
    LET arr == [d \in 1..Len(foods[src]) |->
                   IF d \in param2change
                   THEN Perturb(foods, src, neighbour, d, r, lo, hi)
                   ELSE foods[src][d]]
    IN  Normalize[arr]

\* ABC.sendOnLookerBees, an accepted visit of source src filling slot slot:
\* the selected dimensions of solution[slot] are overwritten, then the row
\* is divided by its sum
OnlookerCandidate(foods, sol, slot, src, neighbour, param2change, r, lo, hi) ==
    LET row == [d \in 1..Len(sol[slot]) |->
                   IF d \in param2change
                   THEN Perturb(foods, src, neighbour, d, r, lo, hi)
                   ELSE sol[slot][d]]
    IN  Normalize[row]

-----------------------------------------------------------------------------
(* State machine: ABC_Model.fit -> LearnABC.__init__ -> LearnABC.learn *)

\* Bookkeeping of a run: fit calls made so far and the number the caller
\* makes, outer iterations completed in the current run, sources the scout
\* phase replaced in the current iteration, sources that hold a scout-drawn
\* row, the parity of the neighbour redraws of the employed bee at work (the
\* random generator advances with every draw), the facade as it was
\* constructed, the trial counters as they stood when the current iteration
\* began, the sources a greedy selection replaced in the current iteration,
\* the sources whose employed bee drew an empty param2change in it, and
\* whether the onlooker sweep at work has wrapped around (1) or not (0).
Hist0(facade, maxFits) ==
    [fits |-> 0, maxFits |-> maxFits, iters |-> 0, scouted |-> {}, raw |-> {},
     redraws |-> 0, facade |-> facade, trial0 |-> <<>>, improved |-> {},
     noop |-> {}, sweep |-> 0]

NoProbe == <<>>

P == model.P
D == Len(args.mean_return)

\* No population exists before the first fit.
NoRun ==
    /\ pc = "idle"
    /\ method = "unset"
    /\ Foods = <<>>
    /\ solution = <<>>
    /\ f = <<>>
    /\ fitness = <<>>
    /\ trial = <<>>
    /\ prob = <<>>
    /\ tmpID = <<>>
    /\ globalMin = None
    /\ globalParams = None
    /\ evaluationNumber = 0
    /\ scoutBeeCounts = 0
    /\ objValSol = <<>>
    /\ f_values = <<>>
    /\ i = 0
    /\ t = 0

Init ==
    /\ \E run \in Runs :
          /\ model = run[1]
          /\ args = run[2]
          /\ hist = Hist0(run[1], IF Len(run[2].mean_return) = 1 THEN MaxFits ELSE 1)
    /\ NoRun
    /\ probe = NoProbe

\* fit on a facade with P <= 0, or with rfr=None under an objective that
\* reads it: ABC.__init__ raises (ValueError from np.random.uniform for
\* P < 0, IndexError at self.f[0] for P = 0, TypeError at ret - None).
FitRaises ==
    /\ pc \in {"idle", "DONE", "raised"}
    /\ hist.fits < hist.maxFits
    /\ P <= 0 \/ ObjectiveRaises(methods_get(args.method_name), args)
    /\ pc' = "raised"
    /\ hist' = [hist EXCEPT !.fits = @ + 1, !.iters = 0, !.scouted = {}, !.raw = {}]
    /\ UNCHANGED <<model, args, method, Foods, solution, f, fitness, trial, prob,
                   tmpID, globalMin, globalParams, evaluationNumber,
                   scoutBeeCounts, objValSol, f_values, i, t, probe>>

\* ABC_Model.fit up to the end of LearnABC.__init__ (ABC.__init__)
Fit ==
    /\ pc \in {"idle", "DONE", "raised"}
    /\ hist.fits < hist.maxFits
    /\ P > 0
    /\ ~ObjectiveRaises(methods_get(args.method_name), args)
    /\ \E raw \in [1..P -> UniformRows(D)] :
          LET m == methods_get(args.method_name)
              foods == [k \in 1..P |-> Normalize[raw[k]]]
              fv == calculateF(m, foods, args)
          IN  /\ method' = m
              /\ Foods' = foods
              /\ solution' = foods
              /\ f' = fv
              /\ evaluationNumber' = 0 + EvalCount(fv)
              /\ fitness' = [k \in 1..P |-> calculate_fitness(fv[k])]
              /\ globalMin' = fv[1]
              /\ globalParams' = foods[1]
    /\ tmpID' = [k \in 1..P |-> -1]
    /\ trial' = [k \in 1..P |-> 0]
    /\ scoutBeeCounts' = 0
    /\ prob' = <<>>
    /\ objValSol' = <<>>
    /\ f_values' = <<>>
    /\ i' = 0
    /\ t' = 0
    /\ pc' = "learn"
    /\ hist' = [hist EXCEPT !.fits = @ + 1, !.iters = 0, !.scouted = {}, !.raw = {}]
    /\ UNCHANGED <<model, args, probe>>

\* LearnABC.learn, lines 136-138
LearnStart ==
    /\ pc = "learn"
    /\ f_values' = <<Min(f)>>
    /\ LET g == memorizeBestSource(f, Foods, globalMin, globalParams)
       IN  globalMin' = g[1] /\ globalParams' = g[2]
    /\ pc' = "test"
    /\ UNCHANGED <<model, args, method, Foods, solution, f, fitness, trial, prob,
                   tmpID, evaluationNumber, scoutBeeCounts, objValSol, i, t,
                   hist, probe>>

\* Mutant: the loop condition allows one more iteration's worth of counter.
LoopCondition_late(counter, budget) == counter <= budget + 2 * P

\* Mutant: the loop is never entered.
LoopCondition_never(counter, budget) == FALSE

\* Mutant: the loop condition with < for <=.
LoopCondition_lt(counter, budget) == counter < budget

\* The loop condition of learn
LoopCondition(counter, budget) == counter <= budget

\* while self.abc.evaluationNumber <= self.total_numberof_evaluation: enter
LoopEnter ==
    /\ pc = "test"
    /\ LoopCondition(evaluationNumber, model.evaluationNumber)
    /\ pc' = "employed"
    /\ i' = 1
    /\ hist' = [hist EXCEPT !.scouted = {}, !.trial0 = trial, !.improved = {},
                            !.noop = {}]
    /\ UNCHANGED <<model, args, method, Foods, solution, f, fitness, trial, prob,
                   tmpID, globalMin, globalParams, evaluationNumber,
                   scoutBeeCounts, objValSol, f_values, t, probe>>

\* Mutant: fit also overwrites the facade's budget with the run's counter.
FitStore_budget(facade, learn_net) ==
    [facade EXCEPT !.net = learn_net, !.evaluationNumber = evaluationNumber]

\* fit, line 204: self.net = learn.net
FitStore(facade, learn_net) == [facade EXCEPT !.net = learn_net]

\* Loop exit: learn stores net = globalParams and globalMin, fit stores net
LoopExit ==
    /\ pc = "test"
    /\ ~LoopCondition(evaluationNumber, model.evaluationNumber)
    /\ model' = FitStore(model, globalParams)
    /\ pc' = "DONE"
    /\ UNCHANGED <<args, method, Foods, solution, f, fitness, trial, prob, tmpID,
                   globalMin, globalParams, evaluationNumber, scoutBeeCounts,
                   objValSol, f_values, i, t, hist, probe>>

\* sendEmployedBees: one pass of the for loop, source i
EmployedBee ==
    /\ pc = "employed"
    /\ i <= P
    /\ \E param2change \in SUBSET (1..D), neighbour \in 1..P, r \in RDraws(D) :
          /\ neighbour # i
          /\ solution' = [solution EXCEPT ![i] =
                EmployedCandidate(Foods, i, neighbour, param2change, r,
                                  model.lb, model.ub)]
          /\ hist' = [hist EXCEPT !.redraws = 0,
                                  !.noop = IF param2change = {} THEN @ \cup {i} ELSE @]
    /\ i' = i + 1
    /\ UNCHANGED <<model, args, pc, method, Foods, f, fitness, trial, prob, tmpID,
                   globalMin, globalParams, evaluationNumber, scoutBeeCounts,
                   objValSol, f_values, t, probe>>

\* sendEmployedBees: while neighbour == i: the draw gave i, draw again
EmployedRedraw ==
    /\ pc = "employed"
    /\ i <= P
    /\ \E neighbour \in 1..P : neighbour = i
    /\ hist' = [hist EXCEPT !.redraws = 1 - @]
    /\ UNCHANGED <<model, args, pc, method, Foods, solution, f, fitness, trial,
                   prob, tmpID, globalMin, globalParams, evaluationNumber,
                   scoutBeeCounts, objValSol, f_values, i, t, probe>>

\* objValSol = self.abc.calculateF(self.abc.solution) after the employed phase
EmployedEval ==
    /\ pc = "employed"
    /\ i > P
    /\ objValSol' = calculateF(method, solution, args)
    /\ evaluationNumber' = evaluationNumber + EvalCount(objValSol')
    /\ pc' = "employed_update"
    /\ UNCHANGED <<model, args, method, Foods, solution, f, fitness, trial, prob,
                   tmpID, globalMin, globalParams, scoutBeeCounts, f_values, i, t,
                   hist, probe>>

\* Mutant: the less fit candidate replaces its source.
Improves_lt(fitSol, fit) == Less[fitSol, fit]

\* fitnessSol > self.abc.fitness, elementwise
Improves(fitSol, fit) == Greater[fitSol, fit]

\* learn, lines 144-156: the employed greedy selection
EmployedUpdate ==
    /\ pc = "employed_update"
    /\ LET fitnessSol == [k \in 1..P |-> calculate_fitness(objValSol[k])]
           ind == {k \in 1..P : Improves(fitnessSol[k], fitness[k])}
           ind2 == {k \in 1..P : LEq[fitnessSol[k], fitness[k]]}
       IN  /\ Foods' = [k \in 1..P |-> IF k \in ind THEN solution[k] ELSE Foods[k]]
           /\ f' = [k \in 1..P |-> IF k \in ind THEN objValSol[k] ELSE f[k]]
           /\ fitness' = [k \in 1..P |-> IF k \in ind THEN fitnessSol[k] ELSE fitness[k]]
           /\ trial' = [k \in 1..P |->
                          (IF k \in ind THEN 0 ELSE trial[k])
                          + (IF k \in ind2 THEN 1 ELSE 0)]
           /\ hist' = [hist EXCEPT !.raw = @ \ ind, !.improved = @ \cup ind]
    /\ pc' = "probabilities"
    /\ UNCHANGED <<model, args, method, solution, prob, tmpID, globalMin,
                   globalParams, evaluationNumber, scoutBeeCounts, objValSol,
                   f_values, i, t, probe>>

\* self.abc.calculateProbabilities(), then sendOnLookerBees starts (i = t = 0)
Probabilities ==
    /\ pc = "probabilities"
    /\ prob' = calculateProbabilities(fitness)
    /\ pc' = "onlooker"
    /\ i' = 1
    /\ t' = 1
    /\ hist' = [hist EXCEPT !.sweep = 0]
    /\ UNCHANGED <<model, args, method, Foods, solution, f, fitness, trial, tmpID,
                   globalMin, globalParams, evaluationNumber, scoutBeeCounts,
                   objValSol, f_values, probe>>

\* Mutant: the sweep wraps one source early (i >= P - 1 for i >= P).
NextSource_early(k) == IF k + 1 >= P THEN 1 ELSE k + 1

\* i += 1; if i >= P: i = 0
NextSource(k) == IF k + 1 > P THEN 1 ELSE k + 1

\* np.random.rand() < prob[i] can be true: rand() is in [0, 1)
CanAccept(p) == Greater[p, Zero]

\* Mutant: any visit can be rejected.
CanReject_always(p) == TRUE

\* np.random.rand() < prob[i] can be false
CanReject(p) == ~GEq[p, One]

\* sendOnLookerBees: a visit of source i that is accepted
OnlookerAccept ==
    /\ pc = "onlooker"
    /\ t <= P
    /\ CanAccept(prob[i])
    /\ \E param2change \in SUBSET (1..D), neighbour \in 1..P, r \in RDraws(D) :
          /\ neighbour # i
          /\ solution' = [solution EXCEPT ![t] =
                OnlookerCandidate(Foods, solution, t, i, neighbour, param2change, r,
                                  model.lb, model.ub)]
    /\ tmpID' = [tmpID EXCEPT ![t] = i]
    /\ t' = t + 1
    /\ i' = NextSource(i)
    /\ hist' = [hist EXCEPT !.sweep = IF i' <= i THEN 1 ELSE @]
    /\ UNCHANGED <<model, args, pc, method, Foods, f, fitness, trial, prob,
                   globalMin, globalParams, evaluationNumber, scoutBeeCounts,
                   objValSol, f_values, probe>>

\* sendOnLookerBees: a visit of source i that is not accepted
OnlookerReject ==
    /\ pc = "onlooker"
    /\ t <= P
    /\ CanReject(prob[i])
    /\ i' = NextSource(i)
    /\ hist' = [hist EXCEPT !.sweep = IF i' <= i THEN 1 ELSE @]
    /\ UNCHANGED <<model, args, pc, method, Foods, solution, f, fitness, trial,
                   prob, tmpID, globalMin, globalParams, evaluationNumber,
                   scoutBeeCounts, objValSol, f_values, t, probe>>

\* objValSol = self.abc.calculateF(self.abc.solution) after the onlooker phase
OnlookerEval ==
    /\ pc = "onlooker"
    /\ t > P
    /\ objValSol' = calculateF(method, solution, args)
    /\ evaluationNumber' = evaluationNumber + EvalCount(objValSol')
    /\ pc' = "onlooker_update"
    /\ hist' = [hist EXCEPT !.sweep = 0]
    /\ UNCHANGED <<model, args, method, Foods, solution, f, fitness, trial, prob,
                   tmpID, globalMin, globalParams, scoutBeeCounts, f_values, i, t,
                   probe>>

\* Mutant: slot k is compared with source k, not with source tmpID[k].
OnlookerSlot_byslot(pop, sol, objSol, ids, k) ==
    LET src == k
        fitSol == calculate_fitness(objSol[k])
    IN  IF Greater[fitSol, pop[3][src]]
        THEN <<[pop[1] EXCEPT ![src] = sol[k]],
               [pop[2] EXCEPT ![src] = objSol[k]],
               [pop[3] EXCEPT ![src] = fitSol],
               [pop[4] EXCEPT ![src] = 0]>>
        ELSE <<pop[1], pop[2], pop[3], [pop[4] EXCEPT ![src] = @ + 1]>>

\* Mutant: the onlooker selection replaces the row and its fitness but keeps
\* the old objective.
OnlookerSlot_stalef(pop, sol, objSol, ids, k) ==
    LET src == ids[k]
        fitSol == calculate_fitness(objSol[k])
    IN  IF Greater[fitSol, pop[3][src]]
        THEN <<[pop[1] EXCEPT ![src] = sol[k]],
               pop[2],
               [pop[3] EXCEPT ![src] = fitSol],
               [pop[4] EXCEPT ![src] = 0]>>
        ELSE <<pop[1], pop[2], pop[3], [pop[4] EXCEPT ![src] = @ + 1]>>

\* Mutant: an onlooker candidate that fails leaves the trial counter alone.
OnlookerSlot_nocount(pop, sol, objSol, ids, k) ==
    LET src == ids[k]
        fitSol == calculate_fitness(objSol[k])
    IN  IF Greater[fitSol, pop[3][src]]
        THEN <<[pop[1] EXCEPT ![src] = sol[k]],
               [pop[2] EXCEPT ![src] = objSol[k]],
               [pop[3] EXCEPT ![src] = fitSol],
               [pop[4] EXCEPT ![src] = 0]>>
        ELSE pop

\* The population <<Foods, f, fitness, trial>> after slot k of the onlooker
\* greedy selection has been applied to pop
OnlookerSlot(pop, sol, objSol, ids, k) ==
    LET src == ids[k]
        fitSol == calculate_fitness(objSol[k])
    IN  IF Improves(fitSol, pop[3][src])
        THEN <<[pop[1] EXCEPT ![src] = sol[k]],
               [pop[2] EXCEPT ![src] = objSol[k]],
               [pop[3] EXCEPT ![src] = fitSol],
               [pop[4] EXCEPT ![src] = 0]>>
        ELSE <<pop[1], pop[2], pop[3], [pop[4] EXCEPT ![src] = @ + 1]>>

RECURSIVE OnlookerSlots(_, _, _, _, _)
\* learn, lines 164-172: slots 1..k applied in order
OnlookerSlots(pop, sol, objSol, ids, k) ==
    IF k = 0 THEN pop
    ELSE OnlookerSlot(OnlookerSlots(pop, sol, objSol, ids, k - 1), sol, objSol, ids, k)

\* learn, lines 162-172: the onlooker greedy selection
OnlookerUpdate ==
    /\ pc = "onlooker_update"
    /\ LET pop == OnlookerSlots(<<Foods, f, fitness, trial>>, solution, objValSol,
                                tmpID, P)
       IN  /\ Foods' = pop[1]
           /\ f' = pop[2]
           /\ fitness' = pop[3]
           /\ trial' = pop[4]
           /\ hist' = [hist EXCEPT
                          !.raw = @ \ {k \in 1..P : pop[3][k] # fitness[k]},
                          !.improved = @ \cup {k \in 1..P : pop[3][k] # fitness[k]}]
    /\ pc' = "memorize"
    /\ UNCHANGED <<model, args, method, solution, prob, tmpID, globalMin,
                   globalParams, evaluationNumber, scoutBeeCounts, objValSol,
                   f_values, i, t, probe>>

\* self.abc.memorizeBestSource() inside the loop
Memorize ==
    /\ pc = "memorize"
    /\ LET g == memorizeBestSource(f, Foods, globalMin, globalParams)
       IN  globalMin' = g[1] /\ globalParams' = g[2]
    /\ pc' = "scout"
    /\ UNCHANGED <<model, args, method, Foods, solution, f, fitness, trial, prob,
                   tmpID, evaluationNumber, scoutBeeCounts, objValSol, f_values,
                   i, t, hist, probe>>

\* Mutant: the scout fires only above the limit (> for >=).
ScoutFires_gt(tr, limit) == tr[ArgMaxTrial(tr)] > limit

\* sendScoutBees: self.trial[index] >= self.limit
ScoutFires(tr, limit) == tr[ArgMaxTrial(tr)] >= limit

\* sendScoutBees with the limit reached: create_new(index)
ScoutReplace ==
    /\ pc = "scout"
    /\ ScoutFires(trial, model.limit)
    /\ \E new_sol \in UniformRows(D) :
          LET index == ArgMaxTrial(trial)
              fnew == calculateF(method, <<new_sol>>, args)
          IN  /\ Foods' = [Foods EXCEPT ![index] = new_sol]
              /\ solution' = [solution EXCEPT ![index] = new_sol]
              /\ f' = [f EXCEPT ![index] = fnew[1]]
              /\ evaluationNumber' = evaluationNumber + EvalCount(fnew)
              /\ fitness' = [fitness EXCEPT ![index] = calculate_fitness(fnew[1])]
              /\ trial' = [trial EXCEPT ![index] = 0]
              /\ hist' = [hist EXCEPT !.scouted = @ \cup {index},
                                      !.raw = @ \cup {index}]
    /\ scoutBeeCounts' = scoutBeeCounts + 1
    /\ pc' = "history"
    /\ UNCHANGED <<model, args, method, prob, tmpID, globalMin, globalParams,
                   objValSol, f_values, i, t, probe>>

\* sendScoutBees with every trial counter below the limit
ScoutSkip ==
    /\ pc = "scout"
    /\ ~ScoutFires(trial, model.limit)
    /\ pc' = "history"
    /\ UNCHANGED <<model, args, method, Foods, solution, f, fitness, trial, prob,
                   tmpID, globalMin, globalParams, evaluationNumber,
                   scoutBeeCounts, objValSol, f_values, i, t, hist, probe>>

\* self.f_values.append(np.min(self.abc.f)); back to the loop test
HistoryAppend ==
    /\ pc = "history"
    /\ f_values' = Append(f_values, Min(f))
    /\ hist' = [hist EXCEPT !.iters = @ + 1, !.trial0 = <<>>, !.improved = {},
                            !.noop = {}]
    /\ pc' = "test"
    /\ UNCHANGED <<model, args, method, Foods, solution, f, fitness, trial, prob,
                   tmpID, globalMin, globalParams, evaluationNumber,
                   scoutBeeCounts, objValSol, i, t, probe>>

Next ==
    \/ FitRaises
    \/ Fit
    \/ LearnStart
    \/ LoopEnter
    \/ LoopExit
    \/ EmployedBee
    \/ EmployedRedraw
    \/ EmployedEval
    \/ EmployedUpdate
    \/ Probabilities
    \/ OnlookerAccept
    \/ OnlookerReject
    \/ OnlookerEval
    \/ OnlookerUpdate
    \/ Memorize
    \/ ScoutReplace
    \/ ScoutSkip
    \/ HistoryAppend

Spec == Init /\ [][Next]_vars

\* The interpreter always takes the next step of a started fit, and fair
\* random draws let a draw that stays possible happen eventually: a
\* neighbour other than i, a uniform number below prob[i].
FairSpec ==
    Spec /\ WF_vars(Next) /\ SF_vars(EmployedBee) /\ SF_vars(OnlookerAccept)

-----------------------------------------------------------------------------
(* calculate_fitness applied to a pair of objective values *)

\* Objective values handed to calculate_fitness: finite ones, and the
\* inf/NaN the unguarded Sharpe objective returns on a zero-risk row.
FitnessInputs ==
    {Q[n, 1] : n \in {-3, -2, -1, 0, 1, 2, 5}}
    \cup {Q[-1, 2], Q[-1, 4], Q[1, 4], Q[1, 2], Q[3, 2]}
    \cup {PosInf, NegInf, NaN}

FitnessInit ==
    /\ model = Facade(1, 1, 0)
    /\ args = FitCall(Market1, "dengeli", Market1.rfr)
    /\ hist = Hist0(model, 0)
    /\ NoRun
    /\ \E a \in FitnessInputs, b \in FitnessInputs :
          probe = [stage |-> "in", a |-> a, b |-> b, fa |-> None, fb |-> None]

\* fFitness = self.calculate_fitness(f) on the two values
ApplyFitness ==
    /\ probe.stage = "in"
    /\ probe' = [probe EXCEPT !.stage = "out",
                              !.fa = calculate_fitness(probe.a),
                              !.fb = calculate_fitness(probe.b)]
    /\ UNCHANGED <<model, args, pc, method, Foods, solution, f, fitness, trial,
                   prob, tmpID, globalMin, globalParams, evaluationNumber,
                   scoutBeeCounts, objValSol, f_values, i, t, hist>>

FitnessNext == ApplyFitness

FitnessSpec == FitnessInit /\ [][FitnessNext]_vars

-----------------------------------------------------------------------------
(* Properties *)

Running == pc \notin {"idle", "DONE", "raised"}
Budget == model.evaluationNumber

\* C1: within a run the stored global best never gets worse, and globalMin
\* and globalParams change only in memorizeBestSource and only when the
\* population minimum is strictly smaller than globalMin, also after the
\* source that supplied them was scout-reset.
C1_Step ==
    Running =>
        /\ globalMin' = globalMin \/ Less[globalMin', globalMin]
        /\ (globalMin' # globalMin \/ globalParams' # globalParams) =>
              /\ pc \in {"learn", "memorize"}
              /\ Less[Min(f), globalMin]
              /\ globalMin' = Min(f)
              /\ globalParams' = Foods[ArgMin(f)]
C1_GlobalBestNonIncreasing == [][C1_Step]_vars

\* C1 witness: the loop improved the global best and the scout phase has
\* since replaced the source that supplied it.
C1_Witness ==
    /\ pc = "history"
    /\ hist.scouted # {}
    /\ Less[globalMin, f_values[1]]
    /\ \A k \in 1..P : Foods[k] # globalParams

\* C2 as stated: after N completed outer iterations the counter is P + N*2P.
C2_CounterIsPPlus2PN ==
    pc = "test" => evaluationNumber = P + hist.iters * 2 * P

\* C2 amended: after N completed outer iterations the counter is
\* P + N*2P + scoutBeeCounts (create_new evaluates its one row).
C2_CounterCountsScouts ==
    pc = "test" => evaluationNumber = P + hist.iters * 2 * P + scoutBeeCounts

\* C2 witness: two iterations completed, a scout replacement among them.
C2_Witness == pc = "test" /\ hist.iters = 2 /\ scoutBeeCounts >= 1

\* C3 as stated: at the end of an outer iteration every source sums to 1
\* except one the scout phase replaced in that same iteration.
C3_OnlyThisCycleExempt ==
    (pc = "test" /\ hist.iters >= 1) =>
        \A k \in (1..P) \ hist.scouted : Sum[Foods[k]] = One

\* C3 amended: at the end of an outer iteration every source sums to 1
\* except those holding a scout-drawn row, from this or an earlier
\* iteration, that no greedy update has replaced since.
C3_ScoutRowsStayRaw ==
    (pc = "test" /\ hist.iters >= 1) =>
        \A k \in (1..P) \ hist.raw : Sum[Foods[k]] = One

\* C3 witness: an iteration ends with a source still holding the
\* un-normalized row a scout phase of an earlier iteration gave it.
C3_Witness ==
    /\ pc = "test"
    /\ hist.iters >= 2
    /\ \E k \in hist.raw \ hist.scouted : Sum[Foods[k]] # One

\* C4: every row of the initial batch, of each employed batch and of each
\* onlooker batch sums to 1 when it is evaluated.
C4_EvaluatedRowsSumToOne ==
    /\ pc = "learn" => \A k \in 1..P : Sum[Foods[k]] = One
    /\ pc \in {"employed_update", "onlooker_update"} =>
          \A k \in 1..P : Sum[solution[k]] = One

\* C5: every call of fit reaches DONE or raises.
C5_FitTerminates == <>(pc \in {"DONE", "raised"})

\* C6 as stated: at DONE, budget < counter <= budget + 2P.
C6_OvershootAtMost2P ==
    pc = "DONE" => Budget < evaluationNumber /\ evaluationNumber <= Budget + 2 * P

\* C6 amended: at DONE the counter exceeds the budget; it is P if no
\* iteration ran, and otherwise at most budget + 2P + 1 (the last
\* iteration's scout evaluation).
C6_OvershootAtMost2PPlus1 ==
    pc = "DONE" =>
        /\ Budget < evaluationNumber
        /\ IF hist.iters = 0 THEN evaluationNumber = P
           ELSE evaluationNumber <= Budget + 2 * P + 1

\* C6 witness: a run ends with the counter at budget + 2P + 1.
C6_Witness == pc = "DONE" /\ evaluationNumber = Budget + 2 * P + 1

\* C7: a method name outside the three known ones raises no error of its
\* own and runs as "dengeli" does: the selected objective is the negative
\* Sharpe ratio and every batch is evaluated with it.
C7_UnknownMethodIsSharpe ==
    args.method_name \notin {"dengeli", "garantici", "temkinli"} =>
        /\ pc = "raised" => (P <= 0 \/ args.rfr = None)
        /\ pc \notin {"idle", "raised"} => method = methods_get("dengeli")
        /\ pc = "learn" => f = calculateF("neg_sharpe_ratio", Foods, args)
        /\ pc \in {"employed_update", "onlooker_update"} =>
              objValSol = calculateF("neg_sharpe_ratio", solution, args)

\* C7 witness: a fit with an unknown method name completed an iteration on
\* the two-asset market.
C7_Witness ==
    /\ args.method_name = "typo"
    /\ D = 2
    /\ pc = "DONE"
    /\ hist.iters >= 1

\* C8: fit leaves the facade's hyperparameters as constructed and writes
\* only net, the global best of length D, at the end of the run; every fit
\* starts from a fresh population (counter P after the initial batch, all
\* trial counters 0, no scout event).
C8_FitFrame ==
    /\ [model EXCEPT !.net = None] = hist.facade
    /\ pc = "learn" =>
          /\ evaluationNumber = P
          /\ Len(Foods) = P
          /\ \A k \in 1..P : trial[k] = 0 /\ Len(Foods[k]) = D
          /\ scoutBeeCounts = 0
    /\ pc = "DONE" => model.net = globalParams /\ Len(model.net) = D
    /\ (hist.fits <= 1 /\ pc # "DONE") => model.net = None

\* C8 witness: a second fit has built its population on a facade whose
\* first fit ran to DONE with a scout event.
C8_Witness ==
    /\ hist.fits = 2
    /\ pc = "learn"
    /\ model.net # None
    /\ Sum[model.net] # One

\* C9 as stated: fitness is 1/(f+1) for f >= 0 and 1+|f| for f < 0, is
\* strictly positive for every objective value, and reverses the order.
C9_FitnessPositiveEverywhere ==
    probe.stage = "out" =>
        /\ Greater[probe.fa, Zero]
        /\ Greater[probe.fa, probe.fb] <=> Less[probe.a, probe.b]

\* C9 amended: fitness is 1/(f+1) for f >= 0 and 1+|f| for f < 0; it is 1
\* at 0, 1/6 at 5, 4 at -3, strictly positive for every finite f and for
\* -inf, 0 at +inf and NaN at NaN; it never preserves an order: a < b gives
\* fitness(a) >= fitness(b), and fitness(a) > fitness(b) only if a < b.
C9_FitnessTransform ==
    probe.stage = "out" =>
        /\ GEq[probe.a, Zero] => probe.fa = Div[One, Add[probe.a, One]]
        /\ Less[probe.a, Zero] => probe.fa = Add[One, Abs[probe.a]]
        /\ probe.a = Zero => probe.fa = One
        /\ probe.a = Q[5, 1] => probe.fa = Q[1, 6]
        /\ probe.a = Q[-3, 1] => probe.fa = Q[4, 1]
        /\ (IsFinite(probe.a) \/ probe.a = NegInf) => Greater[probe.fa, Zero]
        /\ probe.a = PosInf => probe.fa = Zero
        /\ IsNaN(probe.a) => IsNaN(probe.fa)
        /\ Less[probe.a, probe.b] => GEq[probe.fa, probe.fb]
        /\ Greater[probe.fa, probe.fb] => Less[probe.a, probe.b]

\* C9 witness: the transform applied to 5 and -3.
C9_Witness ==
    /\ probe.stage = "out"
    /\ probe.a = Q[5, 1]
    /\ probe.b = Q[-3, 1]
    /\ probe.fa = Q[1, 6]
    /\ probe.fb = Q[4, 1]

\* C10: under the negative-Sortino objective every evaluated row gets 0 if
\* its return is >= rfr and 1 if it is below, and no other value.
C10_SortinoZeroOrOne ==
    method = "neg_sortino_ratio" =>
        /\ pc \in {"employed_update", "onlooker_update"} =>
              \A k \in 1..P : objValSol[k] =
                  (IF GEq[Dot[solution[k], args.mean_return], args.rfr]
                   THEN Zero ELSE One)
        /\ \A k \in 1..Len(f) : f[k] =
              (IF GEq[Dot[Foods[k], args.mean_return], args.rfr] THEN Zero ELSE One)

\* C11: the candidate an accepted onlooker visit of source i writes to slot
\* t is the employed recipe applied to Foods[i] (Foods[i] in the unselected
\* dimensions, the clipped perturbation in the selected ones, then divided
\* by the row sum), whatever the buffer held in slot t.
C11_Step ==
    (pc = "onlooker" /\ t' = t + 1) =>
        \E param2change \in SUBSET (1..D), neighbour \in (1..P) \ {i},
           r \in RDraws(D) :
            solution'[t] = EmployedCandidate(Foods, i, neighbour, param2change, r,
                                             model.lb, model.ub)
C11_OnlookerUsesEmployedRecipe == [][C11_Step]_vars

\* The slots of the onlooker batch that source s originated
SlotsOf(s) == {k \in 1..P : tmpID[k] = s}

\* Fitness of the candidate in slot k of the evaluated batch
CandFitness(k) == calculate_fitness(objValSol[k])

\* Slot k beats its source's fitness before the phase and the candidates of
\* the earlier slots of the same source
SlotImproves(k) ==
    /\ Greater[CandFitness(k), fitness[tmpID[k]]]
    /\ \A j \in SlotsOf(tmpID[k]) :
          (j < k /\ ~IsNaN(CandFitness(j))) => Greater[CandFitness(k), CandFitness(j)]

\* C12: the onlooker greedy update touches source tmpID[k] for slot k and
\* no other: a source without a slot keeps vector, objective, fitness and
\* trial; a source with slots ends with the greatest of its old fitness and
\* its candidates' fitnesses, holds the vector and objective of the last
\* slot that improved it, and its trial counts the slots since then.
C12_Step ==
    pc = "onlooker_update" =>
        \A s \in 1..P :
            LET K == SlotsOf(s)
                W == {k \in K : SlotImproves(k)}
            IN  IF W = {}
                THEN /\ Foods'[s] = Foods[s]
                     /\ f'[s] = f[s]
                     /\ fitness'[s] = fitness[s]
                     /\ trial'[s] = trial[s] + Cardinality(K)
                ELSE LET last == CHOOSE k \in W : \A j \in W : j <= k
                     IN  /\ Foods'[s] = solution[last]
                         /\ f'[s] = objValSol[last]
                         /\ fitness'[s] = CandFitness(last)
                         /\ \A k \in K : ~Greater[CandFitness(k), fitness'[s]]
                         /\ Greater[fitness'[s], fitness[s]]
                         /\ trial'[s] = Cardinality({k \in K : k > last})
C12_OnlookerUpdatesOrigin == [][C12_Step]_vars

\* C12 witness: the batch about to be applied has a source with two slots,
\* one of which improves it from a slot of another index, and a source
\* with none.
C12_Witness ==
    /\ pc = "onlooker_update"
    /\ \E s \in 1..P : SlotsOf(s) = {}
    /\ \E k \in 1..P :
          /\ tmpID[k] # k
          /\ SlotImproves(k)
          /\ Cardinality(SlotsOf(tmpID[k])) >= 2

\* C13: in the employed greedy update every source is either replaced by
\* its strictly fitter candidate, with trial 0, or left as it is with its
\* trial increased by 1, whatever objective value the candidate got.
C13_Step ==
    pc = "employed_update" =>
        \A k \in 1..P :
            LET fitnessSol == calculate_fitness(objValSol[k])
            IN  \/ /\ Greater[fitnessSol, fitness[k]]
                   /\ Foods'[k] = solution[k]
                   /\ f'[k] = objValSol[k]
                   /\ fitness'[k] = fitnessSol
                   /\ trial'[k] = 0
                \/ /\ ~Greater[fitnessSol, fitness[k]]
                   /\ Foods'[k] = Foods[k]
                   /\ f'[k] = f[k]
                   /\ fitness'[k] = fitness[k]
                   /\ trial'[k] = trial[k] + 1
C13_EmployedReplaceOrCount == [][C13_Step]_vars

\* C14: the scout phase replaces at most one source, the lowest-index one
\* with the maximum trial, and only if that trial is >= limit: the source
\* gets a fresh row with entries in [lb, ub], its objective and fitness,
\* trial 0, and the scout count grows by 1; every other source is
\* unchanged; below the limit nothing changes.  The scout count never
\* exceeds the number of completed iterations.
C14_Step ==
    /\ pc = "scout" =>
          LET top == CHOOSE k \in 1..P :
                        /\ \A j \in 1..P : trial[j] <= trial[k]
                        /\ \A j \in 1..(k - 1) : trial[j] < trial[k]
          IN  IF trial[top] >= model.limit
              THEN /\ \A d \in 1..D : /\ GEq[Foods'[top][d], model.lb]
                                      /\ LEq[Foods'[top][d], model.ub]
                   /\ f'[top] = Objective(method, Foods'[top], args)
                   /\ fitness'[top] = calculate_fitness(f'[top])
                   /\ trial'[top] = 0
                   /\ scoutBeeCounts' = scoutBeeCounts + 1
                   /\ \A k \in (1..P) \ {top} :
                         /\ Foods'[k] = Foods[k]
                         /\ f'[k] = f[k]
                         /\ fitness'[k] = fitness[k]
                         /\ trial'[k] = trial[k]
              ELSE /\ Foods' = Foods
                   /\ f' = f
                   /\ fitness' = fitness
                   /\ trial' = trial
                   /\ scoutBeeCounts' = scoutBeeCounts
    /\ pc \notin {"scout", "idle", "DONE", "raised"} =>
          scoutBeeCounts' = scoutBeeCounts
    /\ pc' = "test" => scoutBeeCounts' <= hist'.iters
C14_ScoutReplacesOne == [][C14_Step]_vars

\* C14 witness: the scout phase has replaced one source while another
\* source's trial had also reached the limit.
C14_Witness ==
    /\ pc = "history"
    /\ hist.scouted # {}
    /\ \E k \in (1..P) \ hist.scouted : trial[k] >= model.limit

\* C15: every call of calculateF adds the number of rows it evaluated to
\* the counter (P for the initial, the employed and the onlooker batch, 1
\* for a scout replacement), nothing else changes the counter, and at every
\* loop test the counter is P + 2P*N + the scout count.
C15_Step ==
    /\ (pc \in {"idle", "DONE", "raised"} /\ pc' = "learn") =>
          evaluationNumber' = Len(Foods')
    /\ (pc = "employed" /\ pc' = "employed_update") =>
          evaluationNumber' = evaluationNumber + Len(solution)
    /\ (pc = "onlooker" /\ pc' = "onlooker_update") =>
          evaluationNumber' = evaluationNumber + Len(solution)
    /\ pc = "scout" =>
          evaluationNumber' = evaluationNumber + (scoutBeeCounts' - scoutBeeCounts)
    /\ (pc' = pc \/ pc \in {"learn", "test", "employed_update", "probabilities",
                            "onlooker_update", "memorize", "history"}) =>
          evaluationNumber' = evaluationNumber
    /\ pc' = "test" =>
          evaluationNumber' = P + 2 * P * hist'.iters + scoutBeeCounts'
C15_CounterAddsBatchSize == [][C15_Step]_vars

\* C15 witness: the loop test after two iterations that both had a scout
\* replacement.
C15_Witness ==
    /\ pc = "test"
    /\ hist.iters = 2
    /\ scoutBeeCounts = 2
    /\ evaluationNumber = 5 * P + 2

-----------------------------------------------------------------------------
(* C16: what the trial counter counts *)

\* The iteration has run its three phases and is about to append to the history
IterationEnd == pc = "history"

\* Sources neither replaced by a greedy selection nor redrawn by the scout in
\* the current iteration
Untouched == (1..P) \ (hist.improved \cup hist.scouted)

\* C16 (as stated): at the end of every outer iteration trial[i] is the number
\* of consecutive iterations since source i was last replaced or scout-reset;
\* in particular no trial counter has grown by more than 1 since the
\* iteration began.
C16_TrialGrowsAtMostOne ==
    IterationEnd => \A k \in 1..P : trial[k] <= hist.trial0[k] + 1

\* C16 (amended): trial[i] counts the candidates of source i that failed to
\* replace it, not iterations. At the end of an iteration a source the scout
\* redrew has trial 0; a source a greedy selection replaced has at most as many
\* as the onlooker slots it originated; any other source has grown by one per
\* onlooker slot it originated, plus one for its employed candidate, the
\* latter being skipped when the source's fitness is NaN.
C16_TrialCountsFailedCandidates ==
    IterationEnd =>
        \A k \in 1..P :
            LET n == Cardinality(SlotsOf(k))
            IN  /\ k \in hist.scouted => trial[k] = 0
                /\ k \in hist.improved \ hist.scouted => trial[k] <= n
                /\ k \in Untouched =>
                     /\ trial[k] >= hist.trial0[k] + n
                     /\ trial[k] <= hist.trial0[k] + n + 1
                     /\ IsNaN(fitness[k]) => trial[k] = hist.trial0[k] + n
                /\ trial[k] <= hist.trial0[k] + P + 1

\* An iteration ends with a source that was neither replaced nor redrawn and
\* whose trial counter grew by 2: once in the employed selection and once for
\* the onlooker slot it originated
C16_Witness ==
    /\ IterationEnd
    /\ \E k \in Untouched :
          /\ Cardinality(SlotsOf(k)) = 1
          /\ trial[k] = hist.trial0[k] + 2

-----------------------------------------------------------------------------
(* C17: an empty param2change in the employed phase *)

\* C17 (as stated): the candidate of a source whose employed bee drew an empty
\* param2change equals the source's row, whichever phase produced that row,
\* so the greedy selection leaves the row, its objective and its fitness
\* unchanged and adds 1 to its trial counter.
C17_Step ==
    pc = "employed_update" =>
        \A k \in hist.noop :
            /\ solution[k] = Foods[k]
            /\ Foods'[k] = Foods[k]
            /\ f'[k] = f[k]
            /\ fitness'[k] = fitness[k]
            /\ trial'[k] = trial[k] + 1
C17_EmptySubsetIsNoOp == [][C17_Step]_vars

\* C17 (amended): with an empty param2change the candidate is the source's row
\* divided by its sum.  For a row that sums to one it is the row itself, the
\* selection leaves row, objective and fitness unchanged and adds 1 to the
\* trial counter, or 0 when the fitness is NaN.  For a row the scout drew,
\* whose sum is not one, the candidate is a different row: it either replaces
\* the source, with trial 0, or fails like any other candidate.
C17_AmendedStep ==
    pc = "employed_update" =>
        \A k \in hist.noop :
            /\ solution[k] = Normalize[Foods[k]]
            /\ Sum[Foods[k]] = One =>
                 /\ solution[k] = Foods[k]
                 /\ Foods'[k] = Foods[k]
                 /\ f'[k] = f[k]
                 /\ fitness'[k] = fitness[k]
                 /\ trial'[k] = trial[k] + (IF IsNaN(fitness[k]) THEN 0 ELSE 1)
            /\ Sum[Foods[k]] # One =>
                 /\ solution[k] # Foods[k]
                 /\ k \in hist.raw
                 /\ \/ /\ Foods'[k] = solution[k]
                       /\ f'[k] = objValSol[k]
                       /\ trial'[k] = 0
                    \/ /\ Foods'[k] = Foods[k]
                       /\ f'[k] = f[k]
                       /\ fitness'[k] = fitness[k]
                       /\ trial'[k] \in {trial[k], trial[k] + 1}
C17_EmptySubsetNormalizes == [][C17_AmendedStep]_vars

\* The employed selection has run, and it replaced a source whose bee had
\* drawn an empty param2change: a scout row gave way to its normalization,
\* while another source with an empty draw kept its row and counted a trial
C17_Witness ==
    /\ pc = "probabilities"
    /\ \E k \in hist.noop \cap hist.improved :
          /\ trial[k] = 0
          /\ Sum[Foods[k]] = One
    /\ \E k \in hist.noop \ hist.improved : trial[k] = hist.trial0[k] + 1

-----------------------------------------------------------------------------
(* C18: candidate generation and the population *)

\* A step of sendEmployedBees or sendOnLookerBees that stays in its loop
Generating == pc \in {"employed", "onlooker"} /\ pc' = pc

\* The population and the global best are left alone
PopulationFrame ==
    UNCHANGED <<Foods, f, fitness, trial, globalMin, globalParams>>

\* Of the program's data only the candidate buffer and tmpID are written (i
\* and t are the loops' own counters)
GenerationFrame ==
    /\ PopulationFrame
    /\ UNCHANGED <<model, args, method, prob, evaluationNumber, scoutBeeCounts,
                   objValSol, f_values>>
    /\ pc = "employed" => tmpID' = tmpID

\* The population is written only by the two greedy selections, by the scout
\* and by the construction of a run, and a greedy selection has the objective
\* of all P candidates of the buffer before it
ReplacementAfterBatch ==
    /\ ~PopulationFrame =>
          pc \in {"idle", "DONE", "raised", "learn", "employed_update",
                  "onlooker_update", "memorize", "scout"}
    /\ pc \in {"employed_update", "onlooker_update"} =>
          objValSol = calculateF(method, solution, args)

\* The candidate written by this step is the outcome of the perturbation
\* recipe on the population alone, for some draw
FromPopulation ==
    \E param2change \in SUBSET (1..D), r \in RDraws(D) :
        \/ /\ pc = "employed"
           /\ \E neighbour \in (1..P) \ {i} :
                 solution' = [solution EXCEPT ![i] =
                     EmployedCandidate(Foods, i, neighbour, param2change, r,
                                       model.lb, model.ub)]
        \/ /\ pc = "onlooker"
           /\ \E neighbour \in (1..P) \ {i} :
                 solution' = [solution EXCEPT ![t] =
                     EmployedCandidate(Foods, i, neighbour, param2change, r,
                                       model.lb, model.ub)]

\* C18: while the two phases generate candidates the population and the
\* global best are not modified, only the buffer and tmpID are written, every
\* candidate is computed from the population as it stood when the phase
\* began, and a greedy replacement only follows the evaluation of the whole
\* batch.
C18_Step ==
    /\ Generating => GenerationFrame
    /\ ReplacementAfterBatch
    /\ (Generating /\ solution' # solution) => FromPopulation
C18_CandidatesFromPopulation == [][C18_Step]_vars

-----------------------------------------------------------------------------
(* C19: the onlooker sweep *)

\* C19: the onlooker phase starts its sweep at the first source with the
\* first slot, visits the sources in cyclic index order, and writes the
\* visited source into tmpID for the next free slot whenever a visit is
\* accepted; when the phase ends exactly P candidates have been generated,
\* so every tmpID entry was written in this phase and is a valid source
\* index.
C19_Step ==
    /\ pc = "probabilities" => i' = 1 /\ t' = 1
    /\ (pc = "onlooker" /\ pc' = "onlooker") =>
          /\ t <= P
          /\ i' = (IF i = P THEN 1 ELSE i + 1)
          /\ \/ t' = t + 1 /\ tmpID' = [tmpID EXCEPT ![t] = i]
             \/ t' = t /\ tmpID' = tmpID
    /\ (pc = "onlooker" /\ pc' # "onlooker") =>
          /\ t = P + 1
          /\ pc' = "onlooker_update"
          /\ tmpID' = tmpID
          /\ tmpID \in [1..P -> 1..P]
C19_OnlookerFillsEverySlot == [][C19_Step]_vars

\* An onlooker phase of a later iteration has ended with one source that
\* originated no slot and one that originated several, and with a tmpID
\* that differs from the sweep order 1..P
C19_Witness ==
    /\ pc = "onlooker_update"
    /\ hist.iters >= 1
    /\ \E s \in 1..P : SlotsOf(s) = {}
    /\ \E s \in 1..P : Cardinality(SlotsOf(s)) >= 2
    /\ tmpID # [k \in 1..P |-> k]

-----------------------------------------------------------------------------
(* C20: the order of the steps of learn *)

\* C20: learn starts (INIT), tests the loop condition, and while it holds
\* runs one iteration (RUNNING) whose steps follow each other in the order
\* employed candidates, batch evaluation, employed greedy selection,
\* probabilities, onlooker candidates, batch evaluation, onlooker greedy
\* selection, global best, scout, history append, each once per iteration;
\* when the condition fails the run is DONE, and nothing but a new call of
\* fit leaves DONE.
C20_Step ==
    /\ pc = "learn" => pc' = "test" /\ Len(f_values') = 1
    /\ pc = "test" =>
          /\ Len(f_values) = hist.iters + 1
          /\ pc' = (IF evaluationNumber <= Budget THEN "employed" ELSE "DONE")
    /\ pc = "employed" =>
          \/ pc' = "employed" /\ i <= P
          \/ /\ pc' = "employed_update"
             /\ i = P + 1
             /\ objValSol' = calculateF(method, solution, args)
    /\ pc = "employed_update" => pc' = "probabilities"
    /\ pc = "probabilities" =>
          pc' = "onlooker" /\ prob' = calculateProbabilities(fitness)
    /\ pc = "onlooker" =>
          \/ pc' = "onlooker" /\ t <= P
          \/ /\ pc' = "onlooker_update"
             /\ t = P + 1
             /\ objValSol' = calculateF(method, solution, args)
    /\ pc = "onlooker_update" => pc' = "memorize"
    /\ pc = "memorize" => pc' = "scout"
    /\ pc = "scout" => pc' = "history"
    /\ pc = "history" =>
          /\ pc' = "test"
          /\ f_values' = Append(f_values, Min(f))
          /\ hist'.iters = hist.iters + 1
    /\ (Running /\ pc # "history") =>
          /\ hist'.iters = hist.iters
          /\ pc # "learn" => f_values' = f_values
    /\ Running => hist'.fits = hist.fits
    /\ pc = "DONE" =>
          /\ pc' \in {"learn", "raised"}
          /\ hist'.fits = hist.fits + 1
C20_StepsInOrder == [][C20_Step]_vars

\* A second call of fit has run two iterations to the end: DONE was left
\* only by the new call, and the history holds the initial minimum and one
\* entry per iteration
C20_Witness ==
    /\ pc = "DONE"
    /\ hist.fits = 2
    /\ hist.iters = 2
    /\ Len(f_values) = 3

-----------------------------------------------------------------------------
(* C21: the seed of the global best *)

\* No employed phase has run yet in this call of fit: the first loop test,
\* or DONE without an iteration
BeforeFirstIteration == pc \in {"test", "DONE"} /\ hist.iters = 0

\* <<gMin, gParams>> is a source of the population whose objective no
\* source's objective is below
IsBestOf(gMin, gParams, fv, foods) ==
    \E k \in 1..Len(fv) :
        /\ foods[k] = gParams
        /\ fv[k] = gMin
        /\ \A j \in 1..Len(fv) : GEq[fv[j], gMin]

\* C21: before any employed phase runs, globalMin is the minimum objective of
\* the initial batch and globalParams is a source of the batch attaining it.
C21_SeededFromBatchMinimum ==
    BeforeFirstIteration => IsBestOf(globalMin, globalParams, f, Foods)

-----------------------------------------------------------------------------
(* C22: the convergence history *)

\* x is what np.min returns on fv: NaN if an entry is NaN, else an entry
\* that no entry is below
IsMinimumOf(x, fv) ==
    IF \E k \in 1..Len(fv) : IsNaN(fv[k]) THEN IsNaN(x)
    ELSE /\ \E k \in 1..Len(fv) : fv[k] = x
         /\ \A k \in 1..Len(fv) : ~Less[fv[k], x]

\* C22: the history gets one entry before the loop, the minimum of the
\* initial objective array, and exactly one entry at the end of each
\* iteration, after the scout phase, the minimum of the objective array at
\* that moment; nothing else writes it, and at every loop test after N
\* completed iterations it has N + 1 entries.
C22_Step ==
    /\ pc = "learn" =>
          /\ Len(f_values') = 1
          /\ IsMinimumOf(f_values'[1], f)
    /\ pc = "history" =>
          /\ Len(f_values') = Len(f_values) + 1
          /\ SubSeq(f_values', 1, Len(f_values)) = f_values
          /\ IsMinimumOf(f_values'[Len(f_values')], f)
          /\ UNCHANGED <<f, scoutBeeCounts>>
    /\ pc = "scout" => pc' = "history"
    /\ (Running /\ pc \notin {"learn", "history"}) => f_values' = f_values
    /\ pc' \in {"test", "DONE"} => Len(f_values') = hist'.iters + 1
C22_HistoryOnePerIteration == [][C22_Step]_vars

\* Two iterations are complete, the history has three entries, and the last
\* one is the objective of a source the scout has just drawn, below the
\* stored global best
C22_Witness ==
    /\ pc = "test"
    /\ hist.iters = 2
    /\ Len(f_values) = 3
    /\ \E k \in hist.scouted : f[k] = f_values[3]
    /\ Less[f_values[3], globalMin]

-----------------------------------------------------------------------------
(* C23: the selection probabilities *)

\* prob is 0.9 * fitness / max(fitness) + 0.1, within [0.1, 1], and 1 at a
\* source of maximal fitness
ProbInRange(pr, fit) ==
    \A k \in 1..Len(fit) :
        /\ pr[k] = Add[Div[Mul[Q[9, 10], fit[k]], Max(fit)], Q[1, 10]]
        /\ GEq[pr[k], Q[1, 10]]
        /\ LEq[pr[k], One]
        /\ fit[k] = Max(fit) => pr[k] = One

\* C23: calculateProbabilities sets prob[i] = 0.9*fitness[i]/max(fitness) +
\* 0.1 from the fitness array the employed greedy selection left, for every
\* fitness array a run can reach, so 0.1 <= prob[i] <= 1 with prob[i] = 1 at
\* a source of maximal fitness, and prob stays fixed during the onlooker
\* sweep.
C23_Step ==
    /\ pc = "probabilities" =>
          /\ fitness' = fitness
          /\ ProbInRange(prob', fitness)
    /\ pc = "onlooker" =>
          /\ prob' = prob
          /\ fitness' = fitness
          /\ ProbInRange(prob, fitness)
C23_ProbabilitiesInRange == [][C23_Step]_vars

-----------------------------------------------------------------------------
(* C24: vector, objective and fitness of a source belong together *)

\* The objective of one row under the run's method
ObjectiveOf(row) == calculateF(method, <<row>>, args)[1]

\* C24: whenever a population exists, for every source f[i] is the objective
\* of Foods[i] and fitness[i] is the fitness transform of f[i], and the
\* stored globalMin is the objective of the stored globalParams.
C24_SourcesConsistent ==
    (Running \/ pc = "DONE") =>
        /\ \A k \in 1..P :
              /\ f[k] = ObjectiveOf(Foods[k])
              /\ fitness[k] = calculate_fitness(f[k])
        /\ globalMin = ObjectiveOf(globalParams)

\* An iteration in which a greedy selection replaced one source and the
\* scout redrew another is about to end, and the global best has improved on
\* the initial minimum
C24_Witness ==
    /\ pc = "history"
    /\ hist.improved # {}
    /\ hist.scouted # {}
    /\ hist.improved # hist.scouted
    /\ Less[globalMin, f_values[1]]

-----------------------------------------------------------------------------
(* C25: the returned global best against the history and the population *)

-----------------------------------------------------------------------------
(* C26: what a scout replacement can discard *)

\* The sources this step of the scout phase has written
Redrawn == {k \in 1..P : Foods'[k] # Foods[k] \/ f'[k] # f[k] \/ trial'[k] # trial[k]}

\* C26: the global best update runs immediately before the scout phase and
\* nothing is written in between, so when the scout phase replaces a source
\* that source's objective is greater than or equal to the stored globalMin:
\* no solution strictly better than the global best is discarded.
C26_Step ==
    /\ pc = "memorize" =>
          /\ pc' = "scout"
          /\ UNCHANGED <<Foods, f, fitness, trial>>
          /\ \A k \in 1..P : GEq[f[k], globalMin']
    /\ pc = "scout" =>
          /\ globalMin' = globalMin
          /\ \A k \in Redrawn : GEq[f[k], globalMin] /\ ~Less[f[k], globalMin]
          /\ scoutBeeCounts' # scoutBeeCounts =>
                GEq[f[ArgMaxTrial(trial)], globalMin]
C26_ScoutDiscardsNothingBetter == [][C26_Step]_vars

\* The scout phase has replaced a source in a later iteration, and no source
\* of the population attains the stored global best any more: the discarded
\* source was the best one, equal to globalMin but not below it
C26_Witness ==
    /\ pc = "history"
    /\ hist.iters >= 1
    /\ hist.scouted # {}
    /\ \A k \in 1..P : Greater[f[k], globalMin]

-----------------------------------------------------------------------------
(* C27: termination and the number of iterations *)

\* An objective of the population is NaN
HasNaN == \E k \in 1..Len(f) : IsNaN(f[k])

\* floor((B - P) / (2P)) + 1
MaxIterations == ((Budget - P) \div (2 * P)) + 1

\* C27: for P >= 2, as long as no objective of the population is NaN, under
\* fair random draws every run that has started reaches DONE, and with a
\* budget B >= P the number of outer iterations never exceeds
\* floor((B - P) / (2P)) + 1.
C27_TerminatesWithinBound ==
    /\ (pc = "learn" /\ P >= 2) ~> (pc = "DONE" \/ HasNaN)
    /\ []((Running /\ P >= 2 /\ Budget >= P) => hist.iters <= MaxIterations)
    /\ []((pc = "DONE" /\ P >= 2 /\ Budget >= P) => hist.iters <= MaxIterations)

\* A run with P >= 2 and no NaN objective has reached DONE after exactly the
\* greatest number of iterations the bound allows, two
C27_Witness ==
    /\ pc = "DONE"
    /\ P >= 2
    /\ Budget >= P
    /\ ~HasNaN
    /\ hist.iters = MaxIterations
    /\ hist.iters = 2

-----------------------------------------------------------------------------
(* C28: a source only gets fitter between scout replacements *)

\* C28: within a run a source is written only by the two greedy selections,
\* which replace it by a candidate of strictly higher fitness and strictly
\* lower objective, and by the scout phase, which redraws the source of
\* maximal trial; so between two scout replacements of a source its fitness
\* never decreases and its objective never increases.
C28_Step ==
    Running =>
        \A k \in 1..P :
            \/ /\ Foods'[k] = Foods[k]
               /\ f'[k] = f[k]
               /\ fitness'[k] = fitness[k]
            \/ /\ pc \in {"employed_update", "onlooker_update"}
               /\ Greater[fitness'[k], fitness[k]]
               /\ Less[f'[k], f[k]]
            \/ /\ pc = "scout"
               /\ k = ArgMaxTrial(trial)
               /\ scoutBeeCounts' = scoutBeeCounts + 1
C28_SourcesOnlyImprove == [][C28_Step]_vars

\* In a later iteration the employed selection has replaced one source by a
\* fitter candidate and kept another, whose trial it counted
C28_Witness ==
    /\ pc = "probabilities"
    /\ hist.iters >= 1
    /\ \E k \in hist.improved : trial[k] = 0 /\ k \notin hist.raw
    /\ \E k \in (1..P) \ hist.improved : trial[k] = hist.trial0[k] + 1

-----------------------------------------------------------------------------
(* C29: a source of maximal fitness in the onlooker sweep *)

\* Every fitness of the population is a finite number
FiniteFitness == \A k \in 1..Len(fitness) : IsFinite(fitness[k])

\* The sources of maximal fitness
Fittest == {k \in 1..P : fitness[k] = Max(fitness)}

\* C29: in an onlooker phase with finite fitness values, while the sweep has
\* not wrapped around, the number of slots used when source i is visited is
\* at most i (counting from 0), so every source is visited before the slots
\* are full; a source of maximal fitness has probability 1 and every visit
\* of it is accepted; and when the phase ends every source of maximal
\* fitness has originated at least one slot.
C29_Step ==
    (pc = "onlooker" /\ FiniteFitness) =>
        /\ (hist.sweep = 0 /\ t <= P) => t <= i
        /\ \A k \in Fittest : prob[k] = One
        /\ (pc' = "onlooker" /\ i \in Fittest /\ i' # i) =>
              /\ t' = t + 1
              /\ tmpID'[t] = i
        /\ pc' = "onlooker_update" =>
              \A k \in Fittest : \E s \in 1..P : tmpID[s] = k
-----------------------------------------------------------------------------
(* C30: a budget below the colony size *)

\* C30: with a budget smaller than P no outer iteration executes: the run
\* goes from its start to the loop test and to DONE, no employed, onlooker
\* or scout phase runs, the scout count stays 0, the evaluation counter
\* stays P, the history has exactly one entry, and fit stores a source of
\* the initial batch of minimal objective.
C30_NoIterationBelowBudget ==
    (P > 0 /\ Budget < P) =>
        /\ pc \in {"idle", "learn", "test", "DONE", "raised"}
        /\ pc \in {"test", "DONE"} =>
              /\ hist.iters = 0
              /\ scoutBeeCounts = 0
              /\ evaluationNumber = P
              /\ Len(f_values) = 1
        /\ pc = "DONE" => IsBestOf(globalMin, model.net, f, Foods)

====
